---- MODULE Spec2Model ----
(***************************************************************************)
(* A model of the job orchestration and status fan-out subsystem of the    *)
(* transcoder: the StatusManager registry (services/status_manager.go in   *)
(* its current revision, with cancellation handles) and the job pipeline   *)
(* (services/transcoder.go) as driven by backend/main.go.                  *)
(*                                                                         *)
(* Every StatusManager method runs with sm.mu held from its first to its   *)
(* last statement, so each method is one atomic action of the model.       *)
(* Methods called with different task ids touch disjoint map entries and   *)
(* disjoint channels. A behaviour is followed up to its first panic.       *)
(*                                                                         *)
(* Spec and SpecTimed put the registry under arbitrary callers (SpecTimed  *)
(* with an advancing clock); DriverSpec runs one job with cancel requests, *)
(* StreamSpec one job with the status streams of its clients.              *)
(***************************************************************************)
EXTENDS Integers, Sequences, FiniteSets, TLC

\* ------------------------------------------------------------------ bounds
\* Channels RegisterSubscriber may make in one behaviour.
MaxChans == 2
\* The last value of the wall clock, which starts at 1.
MaxClock == 2
\* Status streams opened in a behaviour of the specifications other than Spec.
MaxStreams == 1
\* Target resolutions of the job (the length of t.resolutions).
MaxSubtasks == 2

\* ------------------------------------------------------- program constants
\* make(chan types.StatusUpdate, 5)
ChanCap == 5

\* The task ids the callers use.
Jobs == {1}
\* The task ids the callers of PairSpec use: two jobs side by side.
PairJobs == Jobs \cup {2}
Chans == 1..MaxChans

\* The update kinds the pipeline publishes (the comment on StatusUpdate.Type
\* and the "cancelled" update of Process).
Kinds == {"started", "progress", "completed", "failed", "cancelled"}
TerminalKinds == {"completed", "failed", "cancelled"}
\* The kinds the callers of the registry specifications publish.
CallerKinds == {"progress"}

\* The zero value of types.StatusUpdate (Msg stands for Message with the file
\* and resolution names left out, Res for Data.Resolution: 0 when the update
\* names no resolution).
ZeroUpdate == [Type |-> "", Msg |-> "", Res |-> 0, Timestamp |-> 0]
\* types.StatusUpdate{Type: ..., Message: ..., Data: TaskData{Resolution: ...}}
Update(type, msg, res) == [Type |-> type, Msg |-> msg, Res |-> res, Timestamp |-> 0]
\* The zero value of types.TaskStatus: no status, a nil Cancel.
ZeroTask == [LastUpdate |-> ZeroUpdate, Cancel |-> 0]

\* The subtasks of the job: subtask i transcodes t.resolutions[i].
Subtasks == 1..MaxSubtasks
\* handleTranscode has written nothing to its client.
NoResponse == [status |-> 0, taskId |-> 0]
\* No file has been probed.
NoSource == [Width |-> 0, Height |-> 0]
\* No CancelTask call has triggered the token.
NoCancel == [at |-> "", frags |-> 0, open |-> 0]

VARIABLES
    tasks,        \* sm.tasks: taskID -> TaskStatus (a function on the ids present)
    subscribers,  \* sm.subscribers: taskID -> set of channels
    chanBuf,      \* the buffered contents of every channel made so far
    issuedFor,    \* channel -> the task whose RegisterSubscriber made it (0: not made yet)
    closeCalls,   \* channel -> how many times close() ran on it
    ctxCanceled,  \* the contexts whose CancelFunc has been invoked
    outDir,       \* taskID -> whether the task's output directory exists
    now,          \* the wall clock time.Now().UnixMilli() reads
    panics,       \* the runtime panics raised so far
    ret,          \* the last registry call and what it returned
    lastPub,      \* history: taskID -> the update its latest SendUpdate stamped
    unsubscribed, \* history: the channels a DeregisterSubscriber call has named
    retired,      \* history: the channels that had been made for a task when
                  \*          RemoveTask ran on it
    dpc,           \* where the goroutine of handleTranscode stands
    spc,           \* subtask -> where its goroutine of transcodeResolutions stands
    errorOccurred, \* the flag of transcodeResolutions
    playlistChan,  \* the subtasks whose playlist was sent on playlistChan, in order
    manifest,      \* whether buildMainPlaylist has written main.m3u8
    mainContent,   \* the subtasks whose variant entries main.m3u8 lists, in order
    archive,       \* whether ZipOutputFolder has produced the archive
    sawTerminal,   \* history: channel -> its reader has taken an update of a
                   \*          terminal kind
    cancelPoint,   \* history: the pipeline as the first CancelTask call that
                   \*          triggered the token found it
    cancelAcked,   \* history: a CancelTask call returned nil before Process
                   \*          published its terminal status
    response,      \* what handleTranscode wrote to its client
    tpc,           \* where a call of services.NewTranscoder stands
    source,        \* the width and height ffprobe reports for the source file
    vidResolution, \* the tier DetectVideoResolution returned (0: none)
    resolutions    \* the targetResolutions of NewTranscoder, in order

regVars == <<tasks, subscribers, chanBuf, issuedFor, closeCalls, ctxCanceled,
             outDir, now, panics, ret, lastPub, unsubscribed, retired>>
pipeVars == <<dpc, spc, errorOccurred, playlistChan, manifest, mainContent, archive,
              cancelPoint, cancelAcked, response, tpc, source, vidResolution,
              resolutions>>
vars == <<regVars, pipeVars, sawTerminal>>

\* ----------------------------------------------------------------- helpers
MapPut(m, k, v) == [x \in DOMAIN m \cup {k} |-> IF x = k THEN v ELSE m[x]]
MapDel(m, k) == [x \in DOMAIN m \ {k} |-> m[x]]

\* What a call left for its caller: the channel and error it returned and, for
\* SendUpdate, how many subscribers it logged as skipped.
Returned(op, ch, err, skipped) == [op |-> op, ch |-> ch, err |-> err, skipped |-> skipped]
NoCall == Returned("", 0, "", 0)

IsClosed(c) == closeCalls[c] > 0

\* Two sends the code does not make: one that displaces the oldest update of
\* a full buffer, one that puts the update in front of the buffered ones.
TrySendDropOldest(buf, update) ==
    IF Len(buf) < ChanCap THEN Append(buf, update) ELSE Append(Tail(buf), update)
TrySendPrepend(buf, update) ==
    IF Len(buf) < ChanCap THEN <<update>> \o buf ELSE buf
\* select { case clientChan <- update: default: } on an open channel: the
\* update is appended when the buffer has room and dropped otherwise.
TrySend(buf, update) ==
    IF Len(buf) < ChanCap THEN Append(buf, update) ELSE buf

\* make(chan types.StatusUpdate, 5): the next channel not made yet.
HasFreshChan == \E c \in Chans : issuedFor[c] = 0
FreshChan == CHOOSE c \in Chans : issuedFor[c] = 0 /\ \A d \in Chans : issuedFor[d] = 0 => c <= d

SubscribersOf(taskID) == IF taskID \in DOMAIN subscribers THEN subscribers[taskID] ELSE {}

\* ------------------------------------------------------- the StatusManager
NewStatusManager ==
    /\ tasks = << >>
    /\ subscribers = << >>

\* A RegisterSubscriber the code is not: it makes the task's subscriber set
\* before it looks the task up.
RegisterSubscriberEagerSet(taskID) ==
    IF taskID \notin DOMAIN tasks
    THEN /\ ret' = Returned("RegisterSubscriber", 0, "NotFound", 0)
         /\ subscribers' = MapPut(subscribers, taskID, SubscribersOf(taskID))
         /\ UNCHANGED <<tasks, chanBuf, issuedFor, closeCalls, ctxCanceled, outDir,
                        now, panics, lastPub, unsubscribed, retired>>
    ELSE /\ HasFreshChan
         /\ subscribers' = MapPut(subscribers, taskID, SubscribersOf(taskID) \cup {FreshChan})
         /\ issuedFor' = [issuedFor EXCEPT ![FreshChan] = taskID]
         /\ chanBuf' = [chanBuf EXCEPT ![FreshChan] = TrySend(<< >>, tasks[taskID].LastUpdate)]
         /\ ret' = Returned("RegisterSubscriber", FreshChan, "", 0)
         /\ UNCHANGED <<tasks, closeCalls, ctxCanceled, outDir, now, panics, lastPub,
                        unsubscribed, retired>>
\* RegisterSubscriber(taskID): NotFound without a tasks entry; otherwise a new
\* channel, registered, holding the last known status.
RegisterSubscriber(taskID) ==
    IF taskID \notin DOMAIN tasks
    THEN /\ ret' = Returned("RegisterSubscriber", 0, "NotFound", 0)
         /\ UNCHANGED <<tasks, subscribers, chanBuf, issuedFor, closeCalls, ctxCanceled,
                        outDir, now, panics, lastPub, unsubscribed, retired>>
    ELSE /\ HasFreshChan
         /\ LET clientChan == FreshChan
            IN /\ subscribers' = MapPut(subscribers, taskID,
                                        SubscribersOf(taskID) \cup {clientChan})
               /\ issuedFor' = [issuedFor EXCEPT ![clientChan] = taskID]
               /\ chanBuf' = [chanBuf EXCEPT
                                ![clientChan] = TrySend(<< >>, tasks[taskID].LastUpdate)]
               /\ ret' = Returned("RegisterSubscriber", clientChan, "", 0)
         /\ UNCHANGED <<tasks, closeCalls, ctxCanceled, outDir, now, panics, lastPub,
                        unsubscribed, retired>>

\* A DeregisterSubscriber the code is not: it closes the channel also when the
\* task has no subscriber set.
DeregisterSubscriberAlwaysClose(taskID, clientChan) ==
    /\ ret' = Returned("DeregisterSubscriber", clientChan, "", 0)
    /\ unsubscribed' = unsubscribed \cup {clientChan}
    /\ closeCalls' = [closeCalls EXCEPT ![clientChan] = @ + 1]
    /\ panics' = IF IsClosed(clientChan)
                 THEN panics \cup {"close of closed channel"}
                 ELSE panics
    /\ subscribers' = IF taskID \notin DOMAIN subscribers THEN subscribers
                      ELSE IF subscribers[taskID] \ {clientChan} = {}
                           THEN MapDel(subscribers, taskID)
                           ELSE [subscribers EXCEPT ![taskID] = @ \ {clientChan}]
    /\ UNCHANGED <<tasks, chanBuf, issuedFor, ctxCanceled, outDir, now, lastPub, retired>>

\* A DeregisterSubscriber the code is not: it closes the channel and leaves it
\* in the set.
DeregisterSubscriberKeepChan(taskID, clientChan) ==
    /\ ret' = Returned("DeregisterSubscriber", clientChan, "", 0)
    /\ unsubscribed' = unsubscribed \cup {clientChan}
    /\ IF taskID \in DOMAIN subscribers
       THEN /\ closeCalls' = [closeCalls EXCEPT ![clientChan] = @ + 1]
            /\ panics' = IF IsClosed(clientChan)
                         THEN panics \cup {"close of closed channel"}
                         ELSE panics
            /\ UNCHANGED subscribers
       ELSE UNCHANGED <<subscribers, closeCalls, panics>>
    /\ UNCHANGED <<tasks, chanBuf, issuedFor, ctxCanceled, outDir, now, lastPub, retired>>

\* A DeregisterSubscriber the code is not: it never deletes the set.
DeregisterSubscriberKeepSet(taskID, clientChan) ==
    /\ ret' = Returned("DeregisterSubscriber", clientChan, "", 0)
    /\ unsubscribed' = unsubscribed \cup {clientChan}
    /\ IF taskID \in DOMAIN subscribers
       THEN /\ closeCalls' = [closeCalls EXCEPT ![clientChan] = @ + 1]
            /\ panics' = IF IsClosed(clientChan)
                         THEN panics \cup {"close of closed channel"}
                         ELSE panics
            /\ subscribers' = [subscribers EXCEPT ![taskID] = @ \ {clientChan}]
       ELSE UNCHANGED <<subscribers, closeCalls, panics>>
    /\ UNCHANGED <<tasks, chanBuf, issuedFor, ctxCanceled, outDir, now, lastPub, retired>>

\* DeregisterSubscriber(taskID, clientChan): when the task has a subscriber
\* set, the channel is deleted from it and closed, whether or not it was in
\* the set; close of a closed channel panics, which skips the pruning (the
\* deferred Unlock still runs).
DeregisterSubscriber(taskID, clientChan) ==
    /\ ret' = Returned("DeregisterSubscriber", clientChan, "", 0)
    /\ unsubscribed' = unsubscribed \cup {clientChan}
    /\ IF taskID \in DOMAIN subscribers
       THEN LET chans == subscribers[taskID] \ {clientChan}
            IN /\ closeCalls' = [closeCalls EXCEPT ![clientChan] = @ + 1]
               /\ IF IsClosed(clientChan)
                  THEN /\ panics' = panics \cup {"close of closed channel"}
                       /\ subscribers' = [subscribers EXCEPT ![taskID] = chans]
                  ELSE /\ panics' = panics
                       /\ subscribers' = IF chans = {}
                                         THEN MapDel(subscribers, taskID)
                                         ELSE [subscribers EXCEPT ![taskID] = chans]
       ELSE UNCHANGED <<subscribers, closeCalls, panics>>
    /\ UNCHANGED <<tasks, chanBuf, issuedFor, ctxCanceled, outDir, now, lastPub, retired>>

\* A SendUpdate the code is not: it writes a fresh entry, without the cancel
\* function.
SendUpdateClearCancel(taskID, update) ==
    LET stamped == [update EXCEPT !.Timestamp = now]
        chans == SubscribersOf(taskID)
    IN /\ tasks' = MapPut(tasks, taskID, [ZeroTask EXCEPT !.LastUpdate = stamped])
       /\ chanBuf' = [c \in Chans |->
                        IF c \in chans /\ ~IsClosed(c)
                        THEN TrySend(chanBuf[c], stamped)
                        ELSE chanBuf[c]]
       /\ panics' = IF \E c \in chans : IsClosed(c)
                    THEN panics \cup {"send on closed channel"}
                    ELSE panics
       /\ ret' = Returned("SendUpdate", 0, "",
                          Cardinality({c \in chans : Len(chanBuf[c]) >= ChanCap}))
       /\ lastPub' = [lastPub EXCEPT ![taskID] = stamped]
       /\ UNCHANGED <<subscribers, issuedFor, closeCalls, ctxCanceled, outDir, now,
                      unsubscribed, retired>>

\* A SendUpdate the code is not: it keeps the timestamp its caller supplied.
SendUpdateCallerStamp(taskID, update) ==
    LET task == IF taskID \in DOMAIN tasks THEN tasks[taskID] ELSE ZeroTask
        chans == SubscribersOf(taskID)
    IN /\ tasks' = MapPut(tasks, taskID, [task EXCEPT !.LastUpdate = update])
       /\ chanBuf' = [c \in Chans |->
                        IF c \in chans /\ ~IsClosed(c)
                        THEN TrySend(chanBuf[c], update)
                        ELSE chanBuf[c]]
       /\ panics' = IF \E c \in chans : IsClosed(c)
                    THEN panics \cup {"send on closed channel"}
                    ELSE panics
       /\ ret' = Returned("SendUpdate", 0, "",
                          Cardinality({c \in chans : Len(chanBuf[c]) >= ChanCap}))
       /\ lastPub' = [lastPub EXCEPT ![taskID] = update]
       /\ UNCHANGED <<subscribers, issuedFor, closeCalls, ctxCanceled, outDir, now,
                      unsubscribed, retired>>

\* SendUpdate(taskID, update): stamps the update, records it as the task's
\* last status keeping the Cancel field, and offers it to every subscriber.
SendUpdate(taskID, update) ==
    LET stamped == [update EXCEPT !.Timestamp = now]
        task == IF taskID \in DOMAIN tasks THEN tasks[taskID] ELSE ZeroTask
        chans == SubscribersOf(taskID)
    IN /\ tasks' = MapPut(tasks, taskID, [task EXCEPT !.LastUpdate = stamped])
       /\ chanBuf' = [c \in Chans |->
                        IF c \in chans /\ ~IsClosed(c)
                        THEN TrySend(chanBuf[c], stamped)
                        ELSE chanBuf[c]]
       /\ panics' = IF \E c \in chans : IsClosed(c)
                    THEN panics \cup {"send on closed channel"}
                    ELSE panics
       /\ ret' = Returned("SendUpdate", 0, "",
                          Cardinality({c \in chans : Len(chanBuf[c]) >= ChanCap}))
       /\ lastPub' = [lastPub EXCEPT ![taskID] = stamped]
       /\ UNCHANGED <<subscribers, issuedFor, closeCalls, ctxCanceled, outDir, now,
                      unsubscribed, retired>>

\* A RemoveTask the code is not: it deletes the entry and the subscriber set
\* and closes no channel.
RemoveTaskLeaveOpen(taskID) ==
    /\ ctxCanceled' = IF taskID \in DOMAIN tasks /\ tasks[taskID].Cancel # 0
                      THEN ctxCanceled \cup {tasks[taskID].Cancel}
                      ELSE ctxCanceled
    /\ tasks' = MapDel(tasks, taskID)
    /\ subscribers' = MapDel(subscribers, taskID)
    /\ ret' = Returned("RemoveTask", 0, "", 0)
    /\ retired' = retired \cup {c \in Chans : issuedFor[c] = taskID}
    /\ UNCHANGED <<chanBuf, issuedFor, closeCalls, panics, outDir, now, lastPub,
                   unsubscribed>>

\* A RemoveTask the code is not: it closes the channels and keeps the task's
\* subscriber set.
RemoveTaskKeepSet(taskID) ==
    LET chans == SubscribersOf(taskID)
    IN /\ ctxCanceled' = IF taskID \in DOMAIN tasks /\ tasks[taskID].Cancel # 0
                         THEN ctxCanceled \cup {tasks[taskID].Cancel}
                         ELSE ctxCanceled
       /\ tasks' = MapDel(tasks, taskID)
       /\ closeCalls' = [c \in Chans |-> IF c \in chans THEN closeCalls[c] + 1
                                                        ELSE closeCalls[c]]
       /\ panics' = IF \E c \in chans : IsClosed(c)
                    THEN panics \cup {"close of closed channel"}
                    ELSE panics
       /\ ret' = Returned("RemoveTask", 0, "", 0)
       /\ retired' = retired \cup {c \in Chans : issuedFor[c] = taskID}
       /\ UNCHANGED <<subscribers, chanBuf, issuedFor, outDir, now, lastPub, unsubscribed>>

\* RemoveTask(taskID): invokes the bound cancel function, deletes the status
\* entry, closes every registered channel and deletes the subscriber set.
RemoveTask(taskID) ==
    LET chans == SubscribersOf(taskID)
    IN /\ ctxCanceled' = IF taskID \in DOMAIN tasks /\ tasks[taskID].Cancel # 0
                         THEN ctxCanceled \cup {tasks[taskID].Cancel}
                         ELSE ctxCanceled
       /\ tasks' = MapDel(tasks, taskID)
       /\ closeCalls' = [c \in Chans |-> IF c \in chans THEN closeCalls[c] + 1
                                                        ELSE closeCalls[c]]
       /\ IF \E c \in chans : IsClosed(c)
          THEN /\ panics' = panics \cup {"close of closed channel"}
               /\ UNCHANGED subscribers
          ELSE /\ panics' = panics
               /\ subscribers' = MapDel(subscribers, taskID)
       /\ ret' = Returned("RemoveTask", 0, "", 0)
       /\ retired' = retired \cup {c \in Chans : issuedFor[c] = taskID}
       /\ UNCHANGED <<chanBuf, issuedFor, outDir, now, lastPub, unsubscribed>>

\* A CancelTask the code is not: it deletes the entry of the task it cancels.
CancelTaskDropEntry(taskID, removed) ==
    /\ IF taskID \notin DOMAIN tasks
       THEN /\ ret' = Returned("CancelTask", 0, "NotFound", 0)
            /\ UNCHANGED <<tasks, ctxCanceled, outDir>>
       ELSE IF tasks[taskID].Cancel = 0
       THEN /\ ret' = Returned("CancelTask", 0, "NotCancellable", 0)
            /\ UNCHANGED <<tasks, ctxCanceled, outDir>>
       ELSE /\ removed \/ outDir[taskID]
            /\ ctxCanceled' = ctxCanceled \cup {tasks[taskID].Cancel}
            /\ tasks' = MapDel(tasks, taskID)
            /\ outDir' = IF removed THEN [outDir EXCEPT ![taskID] = FALSE] ELSE outDir
            /\ ret' = Returned("CancelTask", 0, IF removed THEN "" ELSE "RemoveFailed", 0)
    /\ UNCHANGED <<subscribers, chanBuf, issuedFor, closeCalls, now, panics,
                   lastPub, unsubscribed, retired>>

\* CancelTask(taskID): NotFound without an entry, an error without a bound
\* cancel function; otherwise the function is invoked and the task's output
\* directory removed, whose failure (removed = FALSE) is returned as an error;
\* os.RemoveAll does not fail on a directory that does not exist.
CancelTask(taskID, removed) ==
    /\ IF taskID \notin DOMAIN tasks
       THEN /\ ret' = Returned("CancelTask", 0, "NotFound", 0)
            /\ UNCHANGED <<ctxCanceled, outDir>>
       ELSE IF tasks[taskID].Cancel = 0
       THEN /\ ret' = Returned("CancelTask", 0, "NotCancellable", 0)
            /\ UNCHANGED <<ctxCanceled, outDir>>
       ELSE /\ removed \/ outDir[taskID]
            /\ ctxCanceled' = ctxCanceled \cup {tasks[taskID].Cancel}
            /\ outDir' = IF removed THEN [outDir EXCEPT ![taskID] = FALSE] ELSE outDir
            /\ ret' = Returned("CancelTask", 0, IF removed THEN "" ELSE "RemoveFailed", 0)
    /\ UNCHANGED <<tasks, subscribers, chanBuf, issuedFor, closeCalls, now, panics,
                   lastPub, unsubscribed, retired>>

\* A StoreCancelFunc the code is not: it always writes a fresh entry.
StoreCancelFuncFresh(taskID, cancel) ==
    /\ tasks' = MapPut(tasks, taskID, [ZeroTask EXCEPT !.Cancel = cancel])
    /\ ret' = Returned("StoreCancelFunc", 0, "", 0)
    /\ UNCHANGED <<subscribers, chanBuf, issuedFor, closeCalls, ctxCanceled, outDir,
                   now, panics, lastPub, unsubscribed, retired>>

\* StoreCancelFunc(taskID, cancel): sets the Cancel field, creating the entry
\* (with the zero LastUpdate) when the task has none.
StoreCancelFunc(taskID, cancel) ==
    /\ tasks' = IF taskID \in DOMAIN tasks
                THEN [tasks EXCEPT ![taskID].Cancel = cancel]
                ELSE MapPut(tasks, taskID, [ZeroTask EXCEPT !.Cancel = cancel])
    /\ ret' = Returned("StoreCancelFunc", 0, "", 0)
    /\ UNCHANGED <<subscribers, chanBuf, issuedFor, closeCalls, ctxCanceled, outDir,
                   now, panics, lastPub, unsubscribed, retired>>

\* The reader of a channel (the loop of handleTranscodeStatusStream) takes the
\* oldest buffered update; a closed channel still yields what it buffered.
Receive(c) ==
    /\ issuedFor[c] # 0
    /\ chanBuf[c] # << >>
    /\ chanBuf' = [chanBuf EXCEPT ![c] = Tail(@)]
    /\ sawTerminal' = [sawTerminal EXCEPT ![c] = @ \/ Head(chanBuf[c]).Type \in TerminalKinds]
    /\ ret' = NoCall
    /\ UNCHANGED <<tasks, subscribers, issuedFor, closeCalls, ctxCanceled, outDir, now,
                   panics, lastPub, unsubscribed, retired>>

\* The wall clock advances between calls.
Tick ==
    /\ panics = {}
    /\ now < MaxClock
    /\ now' = now + 1
    /\ ret' = NoCall
    /\ UNCHANGED <<pipeVars, sawTerminal>>
    /\ UNCHANGED <<tasks, subscribers, chanBuf, issuedFor, closeCalls, ctxCanceled,
                   outDir, panics, lastPub, unsubscribed, retired>>

\* ------------------------------------- the registry under arbitrary callers
Init ==
    /\ NewStatusManager
    /\ chanBuf = [c \in Chans |-> << >>]
    /\ issuedFor = [c \in Chans |-> 0]
    /\ closeCalls = [c \in Chans |-> 0]
    /\ ctxCanceled = {}
    /\ outDir = [j \in PairJobs |-> FALSE]
    /\ now = 1
    /\ panics = {}
    /\ ret = NoCall
    /\ lastPub = [j \in PairJobs |-> ZeroUpdate]
    /\ unsubscribed = {}
    /\ retired = {}
    /\ dpc = "idle"
    /\ spc = [i \in Subtasks |-> "new"]
    /\ errorOccurred = FALSE
    /\ playlistChan = << >>
    /\ manifest = FALSE
    /\ mainContent = << >>
    /\ archive = FALSE
    /\ sawTerminal = [c \in Chans |-> FALSE]
    /\ cancelPoint = NoCancel
    /\ cancelAcked = FALSE
    /\ response = NoResponse
    /\ tpc = "new"
    /\ source = NoSource
    /\ vidResolution = 0
    /\ resolutions = << >>

\* The updates the callers hand to SendUpdate, with a timestamp of their own.
CallerUpdates ==
    {[Update(k, "", 0) EXCEPT !.Timestamp = 7] : k \in CallerKinds}

\* No goroutine runs on once a panic has been raised.
Running == panics = {}

\* The callers of the registry specifications are not the job pipeline.
Idle == UNCHANGED <<pipeVars, sawTerminal>>

Subscribe == Running /\ Idle /\ \E j \in Jobs : RegisterSubscriber(j)

\* A caller unsubscribes a channel it was given, under the id it subscribed to.
Unsubscribe ==
    /\ Running
    /\ Idle
    /\ \E c \in Chans : issuedFor[c] # 0 /\ DeregisterSubscriber(issuedFor[c], c)

Publish == Running /\ Idle /\ \E j \in Jobs, u \in CallerUpdates : SendUpdate(j, u)

Remove == Running /\ Idle /\ \E j \in Jobs : RemoveTask(j)

\* The handle bound to a task is the CancelFunc of the task's own context.
BindCancellation == Running /\ Idle /\ \E j \in Jobs : StoreCancelFunc(j, j)

Cancel == Running /\ Idle /\ \E j \in Jobs, removed \in BOOLEAN : CancelTask(j, removed)

Deliver == Running /\ UNCHANGED pipeVars /\ \E c \in Chans : Receive(c)

Next ==
    \/ Subscribe
    \/ Unsubscribe
    \/ Publish
    \/ Remove
    \/ BindCancellation
    \/ Cancel
    \/ Deliver

Spec == Init /\ [][Next]_vars

\* The same callers with an advancing clock and fewer channels.
SubscribeTimed ==
    /\ Cardinality({c \in Chans : issuedFor[c] # 0}) < MaxStreams
    /\ Subscribe

NextTimed ==
    \/ SubscribeTimed
    \/ Unsubscribe
    \/ Publish
    \/ Remove
    \/ BindCancellation
    \/ Deliver
    \/ Tick

SpecTimed == Init /\ [][NextTimed]_vars

\* Two task ids under the same callers, who do not read their channels.
SubscribePair == Running /\ Idle /\ \E j \in PairJobs : RegisterSubscriber(j)
PublishPair == Running /\ Idle /\ \E j \in PairJobs, u \in CallerUpdates : SendUpdate(j, u)
RemovePair == Running /\ Idle /\ \E j \in PairJobs : RemoveTask(j)
BindCancellationPair == Running /\ Idle /\ \E j \in PairJobs : StoreCancelFunc(j, j)
CancelPair ==
    Running /\ Idle /\ \E j \in PairJobs, removed \in BOOLEAN : CancelTask(j, removed)

NextPair ==
    \/ SubscribePair
    \/ Unsubscribe
    \/ PublishPair
    \/ RemovePair
    \/ BindCancellationPair
    \/ CancelPair

PairSpec == Init /\ [][NextPair]_vars

\* The cancel functions a caller may bind to a task: those of two contexts.
Handles == {1, 2}

\* Callers that publish, bind either cancel function, cancel and remove, with
\* an advancing clock.
BindEither == Running /\ Idle /\ \E j \in Jobs, h \in Handles : StoreCancelFunc(j, h)

NextBind ==
    \/ Tick
    \/ Publish
    \/ BindEither
    \/ Cancel
    \/ Remove

BindSpec == Init /\ [][NextBind]_vars

\* ------------------------------------------- the targets of a transcoder
\* types.P720, the tier DetectVideoResolution falls back to.
P720 == 720

\* types.RESOLUTIONS: tier -> preset.
RESOLUTIONS ==
    (2160 :> [Height |-> 2160, Width |-> 3840, Bitrate |-> 14000]) @@
    (1440 :> [Height |-> 1440, Width |-> 2560, Bitrate |-> 9000]) @@
    (1080 :> [Height |-> 1080, Width |-> 1920, Bitrate |-> 6500]) @@
    (P720 :> [Height |-> 720, Width |-> 1280, Bitrate |-> 4000]) @@
    (480 :> [Height |-> 480, Width |-> 854, Bitrate |-> 2000]) @@
    (360 :> [Height |-> 360, Width |-> 640, Bitrate |-> 1000])

\* The widths and heights ffprobe reports for the first video stream of the
\* sources tried (0: no video stream, or none with a size).
SourceWidths == {0, 640, 854, 1280, 1920, 2560, 3840}
SourceHeights == {0, 360, 480, 720, 1080, 1088, 1440, 2160}

\* The orders in which a range over a Go map can visit the keys in S.
Orders(S) ==
    {f \in [1..Cardinality(S) -> S] :
        \A i, j \in 1..Cardinality(S) : i # j => f[i] # f[j]}

\* utils.DetectVideoResolution once ffprobe has reported width and height: an
\* error for a zero size, the tier whose preset has exactly this width and
\* height, P720 when there is none.
DetectVideoResolution(width, height) ==
    LET exact == {r \in DOMAIN RESOLUTIONS :
                     RESOLUTIONS[r].Width = width /\ RESOLUTIONS[r].Height = height}
    IN IF width = 0 \/ height = 0 THEN [res |-> 0, err |-> "NoResolution"]
       ELSE IF exact # {} THEN [res |-> CHOOSE r \in exact : TRUE, err |-> ""]
       ELSE [res |-> P720, err |-> ""]

\* utils.GetTargetResolutions: the tiers up to the given one whose preset has a
\* size, appended in the order the range over the map visits them; the set of
\* the slices it can return.
GetTargetResolutions(resolution) ==
    Orders({res \in DOMAIN RESOLUTIONS :
               /\ res <= resolution
               /\ RESOLUTIONS[res].Width > 0
               /\ RESOLUTIONS[res].Height > 0})

\* A step of NewTranscoder's caller that touches neither registry nor pipeline.
Apart ==
    /\ UNCHANGED <<tasks, subscribers, chanBuf, issuedFor, closeCalls, ctxCanceled,
                   outDir, now, panics, ret, lastPub, unsubscribed, retired>>
    /\ UNCHANGED <<dpc, spc, errorOccurred, playlistChan, manifest, mainContent,
                   archive, sawTerminal, cancelPoint, cancelAcked, response>>

\* A source file is saved: what ffprobe will report for it.
SaveSource ==
    /\ tpc = "new"
    /\ \E w \in SourceWidths, h \in SourceHeights : source' = [Width |-> w, Height |-> h]
    /\ tpc' = "saved"
    /\ UNCHANGED <<vidResolution, resolutions>>
    /\ Apart

\* services.NewTranscoder: nil when ffprobe fails or DetectVideoResolution
\* returns an error, when there is no target, or when the duration probe fails
\* or is not positive; otherwise a transcoder with the targets.
NewTranscoder ==
    /\ tpc = "saved"
    /\ \E probeOK, durationOK \in BOOLEAN :
          LET d == DetectVideoResolution(source.Width, source.Height)
          IN IF ~probeOK \/ d.err # ""
             THEN tpc' = "nil" /\ UNCHANGED <<vidResolution, resolutions>>
             ELSE \E targetResolutions \in GetTargetResolutions(d.res) :
                     IF Len(targetResolutions) = 0 \/ ~durationOK
                     THEN tpc' = "nil" /\ UNCHANGED <<vidResolution, resolutions>>
                     ELSE /\ tpc' = "built"
                          /\ vidResolution' = d.res
                          /\ resolutions' = targetResolutions
    /\ UNCHANGED source
    /\ Apart

ProbeNext ==
    \/ SaveSource
    \/ NewTranscoder

ProbeSpec == Init /\ [][ProbeNext]_vars

\* ------------------------------------------- the job pipeline and its driver
\* handleTranscode gives the job a fresh id; its context's CancelFunc is the
\* handle of the same number.
TaskID == CHOOSE j \in Jobs : TRUE
\* ctx.Err() == context.Canceled
CtxDone == TaskID \in ctxCanceled

\* Where a subtask goroutine has returned.
SubtaskDone == {"fragment", "error", "cancelled"}
Fragments == {i \in Subtasks : spc[i] = "fragment"}
\* Process has published the job's terminal status.
Ended == dpc \in {"deferred", "remove", "done"}
\* The kind of the terminal status Process has published ("" before that).
Terminal == IF Ended THEN lastPub[TaskID].Type ELSE ""

\* Two verdicts the code does not reach: one that does not read the token,
\* one that does not read the error flag.
JoinVerdictIgnoreCancel(ctxDone, errFlag, nPlaylists) ==
    IF errFlag \/ nPlaylists = 0 THEN "fail" ELSE "build"
JoinVerdictIgnoreError(ctxDone, errFlag, nPlaylists) ==
    IF ctxDone \/ nPlaylists = 0 THEN "fail" ELSE "build"
\* What transcodeResolutions does after wg.Wait(), from the token, the error
\* flag and the number of playlists received.
JoinVerdict(ctxDone, errFlag, nPlaylists) ==
    IF ctxDone THEN "fail"
    ELSE IF errFlag THEN "fail"
    ELSE IF nPlaylists = 0 THEN "fail"
    ELSE "build"

\* The update Process publishes when transcodeResolutions returned false.
FailureUpdate(ctxDone) ==
    IF ctxDone THEN Update("cancelled", "TranscodingCancelled", 0)
               ELSE Update("failed", "TranscodingFailed", 0)

\* A step of the pipeline that makes no registry call.
Quiet == UNCHANGED <<tasks, subscribers, chanBuf, issuedFor, closeCalls, ctxCanceled,
                     now, panics, ret, lastPub, unsubscribed, retired>>
History == UNCHANGED <<sawTerminal, cancelPoint, cancelAcked>>
Files == UNCHANGED <<manifest, mainContent, archive>>
Fanout == UNCHANGED <<spc, errorOccurred, playlistChan>>
Reply == UNCHANGED response
Probe == UNCHANGED <<tpc, source, vidResolution, resolutions>>

\* handleTranscode: StoreCancelFunc(taskID, cancelFunc), the go statement, and
\* the 202 response that carries taskId.
DriverBind ==
    /\ Running
    /\ dpc = "idle"
    /\ StoreCancelFunc(TaskID, TaskID)
    /\ dpc' = "spawned"
    /\ response' = [status |-> 202, taskId |-> TaskID]
    /\ Fanout /\ Files /\ History /\ Probe

\* services.NewTranscoder: nil when a probe of the source fails; the goroutine
\* then publishes "failed" and goes on to call Process on the nil pointer.
DriverNew ==
    /\ Running
    /\ dpc = "spawned"
    /\ \/ Quiet /\ UNCHANGED outDir /\ dpc' = "process"
       \/ SendUpdate(TaskID, Update("failed", "InitFailed", 0)) /\ dpc' = "nilProcess"
    /\ Fanout /\ Files /\ History /\ Reply /\ Probe

\* transcoder.Process(ctx) with a nil transcoder: item := t.source panics; the
\* deferred function runs (cancelFunc, RemoveTask) ...
DriverNilDeref ==
    /\ Running
    /\ dpc = "nilProcess"
    /\ RemoveTask(TaskID)
    /\ dpc' = "crashing"
    /\ Fanout /\ Files /\ History /\ Reply /\ Probe

\* ... and the panic, which nothing recovers, ends the program.
DriverCrash ==
    /\ Running
    /\ dpc = "crashing"
    /\ panics' = panics \cup {"nil pointer dereference"}
    /\ dpc' = "crashed"
    /\ UNCHANGED <<tasks, subscribers, chanBuf, issuedFor, closeCalls, ctxCanceled,
                   outDir, now, ret, lastPub, unsubscribed, retired>>
    /\ Fanout /\ Files /\ History /\ Reply /\ Probe

\* Process: the "started" update.
ProcStart ==
    /\ Running
    /\ dpc = "process"
    /\ SendUpdate(TaskID, Update("started", "TranscodingStarted", 0))
    /\ dpc' = "mkdir"
    /\ Fanout /\ Files /\ History /\ Reply /\ Probe

\* Process: utils.CreateOutputDirectory and, when it fails, the "failed" update.
ProcCreateDir ==
    /\ Running
    /\ dpc = "mkdir"
    /\ \/ /\ Quiet
          /\ outDir' = [outDir EXCEPT ![TaskID] = TRUE]
          /\ dpc' = "fanout"
       \/ /\ SendUpdate(TaskID, Update("failed", "CreateDirFailed", 0))
          /\ dpc' = "deferred"
    /\ Fanout /\ Files /\ History /\ Reply /\ Probe

\* transcode: os.MkdirAll of the resolution's folder.
SubMkdir(i) ==
    /\ dpc = "fanout"
    /\ spc[i] = "new"
    /\ Quiet
    /\ \/ /\ outDir' = [outDir EXCEPT ![TaskID] = TRUE]
          /\ spc' = [spc EXCEPT ![i] = "made"]
       \/ /\ UNCHANGED outDir
          /\ spc' = [spc EXCEPT ![i] = "err"]
    /\ UNCHANGED <<dpc, errorOccurred, playlistChan>>
    /\ Files /\ History /\ Reply /\ Probe

\* transcode: the "started" update of the resolution, then cmd.StderrPipe().
SubAnnounce(i) ==
    /\ spc[i] = "made"
    /\ SendUpdate(TaskID, Update("started", "StartedRes", i))
    /\ \E piped \in BOOLEAN : spc' = [spc EXCEPT ![i] = IF piped THEN "piped" ELSE "err"]
    /\ UNCHANGED <<dpc, errorOccurred, playlistChan>>
    /\ Files /\ History /\ Reply /\ Probe

\* transcode: cmd.Start(). With the token already triggered it returns
\* ctx.Err(), which the error transcode returns wraps.
SubStart(i) ==
    /\ spc[i] = "piped"
    /\ \/ /\ ~CtxDone
          /\ Quiet /\ UNCHANGED outDir
          /\ spc' = [spc EXCEPT ![i] = "running"]
       \/ /\ SendUpdate(TaskID, Update("failed", "StartFailed", 0))
          /\ spc' = [spc EXCEPT ![i] = IF CtxDone THEN "cancelled" ELSE "err"]
    /\ UNCHANGED <<dpc, errorOccurred, playlistChan>>
    /\ Files /\ History /\ Reply /\ Probe

\* A scanner goroutine the code does not have: transcode does not wait for it,
\* and it publishes a progress line after the subtask has returned.
SubProgressUnjoined(i) ==
    /\ spc[i] \in {"running"} \cup SubtaskDone
    /\ SendUpdate(TaskID, Update("progress", "ProgressRes", i))
    /\ UNCHANGED <<dpc, spc, errorOccurred, playlistChan>>
    /\ Files /\ History /\ Reply /\ Probe

\* transcode: the scanner goroutine publishes a progress line of ffmpeg.
SubProgress(i) ==
    /\ spc[i] = "running"
    /\ SendUpdate(TaskID, Update("progress", "ProgressRes", i))
    /\ UNCHANGED <<dpc, spc, errorOccurred, playlistChan>>
    /\ Files /\ History /\ Reply /\ Probe

\* A goroutine the code does not have: it sets the flag on a cancellation too.
SubExitFlagCancel(i) ==
    /\ spc[i] = "running"
    /\ \/ /\ SendUpdate(TaskID, Update("completed", "CompletedRes", i))
          /\ spc' = [spc EXCEPT ![i] = "probe"]
          /\ UNCHANGED errorOccurred
       \/ /\ CtxDone
          /\ Quiet /\ UNCHANGED outDir
          /\ spc' = [spc EXCEPT ![i] = "cancelled"]
          /\ errorOccurred' = TRUE
       \/ /\ ~CtxDone
          /\ SendUpdate(TaskID, Update("failed", "FfmpegError", 0))
          /\ spc' = [spc EXCEPT ![i] = "err"]
          /\ UNCHANGED errorOccurred
    /\ UNCHANGED <<dpc, playlistChan>>
    /\ Files /\ History /\ Reply /\ Probe

\* transcode: cmd.Wait(). ffmpeg exits cleanly (the "completed" update of the
\* resolution follows) or not: then ctx.Err() is returned when the token is
\* triggered, and "failed" is published otherwise. A process that finished
\* before the kill reached it exits cleanly.
SubExit(i) ==
    /\ spc[i] = "running"
    /\ \/ /\ SendUpdate(TaskID, Update("completed", "CompletedRes", i))
          /\ spc' = [spc EXCEPT ![i] = "probe"]
       \/ /\ CtxDone
          /\ Quiet /\ UNCHANGED outDir
          /\ spc' = [spc EXCEPT ![i] = "cancelled"]
       \/ /\ ~CtxDone
          /\ SendUpdate(TaskID, Update("failed", "FfmpegError", 0))
          /\ spc' = [spc EXCEPT ![i] = "err"]
    /\ UNCHANGED <<dpc, errorOccurred, playlistChan>>
    /\ Files /\ History /\ Reply /\ Probe

\* A playlistChan the code does not make: one slot short.
PlaylistCapShort == Cardinality(Subtasks) - 1
\* make(chan types.TranscoderPlaylist, len(t.resolutions))
PlaylistCap == Cardinality(Subtasks)

\* transcode: utils.DetectPlaylistResolution reads the playlist ffmpeg wrote,
\* which takes the output directory; the goroutine sends the playlist on
\* playlistChan, which takes a free slot.
SubProbe(i) ==
    /\ spc[i] = "probe"
    /\ \/ /\ outDir[TaskID]
          /\ Len(playlistChan) < PlaylistCap
          /\ Quiet /\ UNCHANGED outDir
          /\ spc' = [spc EXCEPT ![i] = "fragment"]
          /\ playlistChan' = Append(playlistChan, i)
       \/ /\ SendUpdate(TaskID, Update("failed", "ProbeFailed", 0))
          /\ spc' = [spc EXCEPT ![i] = "err"]
          /\ UNCHANGED playlistChan
    /\ UNCHANGED <<dpc, errorOccurred>>
    /\ Files /\ History /\ Reply /\ Probe

\* A goroutine the code does not have: on its error it stops the siblings
\* that have not returned yet.
SubSkipAbort(i) ==
    /\ spc[i] = "err"
    /\ errorOccurred' = TRUE
    /\ SendUpdate(TaskID, Update("failed", "Skipping", 0))
    /\ spc' = [k \in Subtasks |-> IF k = i THEN "error"
                                  ELSE IF spc[k] \in SubtaskDone THEN spc[k]
                                  ELSE "cancelled"]
    /\ UNCHANGED <<dpc, playlistChan>>
    /\ Files /\ History /\ Reply /\ Probe

\* The subtask goroutine on an error that is not the cancellation: the flag
\* and the "Skipping" update.
SubSkip(i) ==
    /\ spc[i] = "err"
    /\ errorOccurred' = TRUE
    /\ SendUpdate(TaskID, Update("failed", "Skipping", 0))
    /\ spc' = [spc EXCEPT ![i] = "error"]
    /\ UNCHANGED <<dpc, playlistChan>>
    /\ Files /\ History /\ Reply /\ Probe

\* The goroutines transcodeResolutions starts, one for each resolution.
TranscodeMkdir == Running /\ \E i \in Subtasks : SubMkdir(i)
TranscodeAnnounce == Running /\ \E i \in Subtasks : SubAnnounce(i)
TranscodeStart == Running /\ \E i \in Subtasks : SubStart(i)
TranscodeProgress == Running /\ \E i \in Subtasks : SubProgress(i)
TranscodeExit == Running /\ \E i \in Subtasks : SubExit(i)
TranscodeProbe == Running /\ \E i \in Subtasks : SubProbe(i)
TranscodeSkip == Running /\ \E i \in Subtasks : SubSkip(i)

\* A wait the code does not make: for the first goroutine to return.
WaitGroupAny == \E i \in Subtasks : spc[i] \in SubtaskDone
\* wg.Wait() returns: every goroutine of transcodeResolutions has run its
\* deferred wg.Done().
WaitGroupDone == \A i \in Subtasks : spc[i] \in SubtaskDone

\* transcodeResolutions: wg.Wait(), close(playlistChan) and the checks.
PipeJoin ==
    /\ Running
    /\ dpc = "fanout"
    /\ WaitGroupDone
    /\ Quiet /\ UNCHANGED outDir
    /\ dpc' = IF JoinVerdict(CtxDone, errorOccurred, Len(playlistChan)) = "build"
              THEN "build" ELSE "procfail"
    /\ Fanout /\ Files /\ History /\ Reply /\ Probe

\* buildMainPlaylist: the "progress" update.
BuildStart ==
    /\ Running
    /\ dpc = "build"
    /\ SendUpdate(TaskID, Update("progress", "GeneratingMaster", 0))
    /\ dpc' = "write"
    /\ Fanout /\ Files /\ History /\ Reply /\ Probe

\* buildMainPlaylist: os.WriteFile of main.m3u8 into the output directory and
\* the update that reports how it went. The file lists the playlists in the
\* order transcodeResolutions took them from playlistChan.
WriteManifest ==
    /\ Running
    /\ dpc = "write"
    /\ \/ /\ outDir[TaskID]
          /\ SendUpdate(TaskID, Update("completed", "MasterGenerated", 0))
          /\ manifest' = TRUE
          /\ mainContent' = playlistChan
          /\ dpc' = "archiving"
       \/ /\ SendUpdate(TaskID, Update("failed", "WriteMasterFailed", 0))
          /\ UNCHANGED <<manifest, mainContent>>
          /\ dpc' = "procfail"
    /\ UNCHANGED archive
    /\ Fanout /\ History /\ Reply /\ Probe

\* Process: transcodeResolutions returned false.
ProcFail ==
    /\ Running
    /\ dpc = "procfail"
    /\ SendUpdate(TaskID, FailureUpdate(CtxDone))
    /\ dpc' = "deferred"
    /\ Fanout /\ Files /\ History /\ Reply /\ Probe

\* Process: the "Archiving" update.
ZipStart ==
    /\ Running
    /\ dpc = "archiving"
    /\ SendUpdate(TaskID, Update("progress", "Archiving", 0))
    /\ dpc' = "zip"
    /\ Fanout /\ Files /\ History /\ Reply /\ Probe

\* A Process the code is not: it goes on when ZipOutputFolder failed.
ZipIgnoreError ==
    /\ Running
    /\ dpc = "zip"
    /\ Quiet /\ UNCHANGED outDir
    /\ archive' = outDir[TaskID]
    /\ dpc' = "zipped"
    /\ UNCHANGED <<manifest, mainContent>>
    /\ Fanout /\ History /\ Reply /\ Probe

\* Process: utils.ZipOutputFolder, which archives the output directory, and
\* the "failed" update when it fails.
Zip ==
    /\ Running
    /\ dpc = "zip"
    /\ \/ /\ outDir[TaskID]
          /\ Quiet /\ UNCHANGED outDir
          /\ archive' = TRUE
          /\ dpc' = "zipped"
       \/ /\ SendUpdate(TaskID, Update("failed", "ArchiveFailed", 0))
          /\ UNCHANGED archive
          /\ dpc' = "deferred"
    /\ UNCHANGED <<manifest, mainContent>>
    /\ Fanout /\ History /\ Reply /\ Probe

\* Process: os.RemoveAll(outputFolder).
FinalCleanup ==
    /\ Running
    /\ dpc = "zipped"
    /\ Quiet
    /\ outDir' = [outDir EXCEPT ![TaskID] = FALSE]
    /\ dpc' = "cleaned"
    /\ Fanout /\ Files /\ History /\ Reply /\ Probe

\* Process: the final "completed" update.
FinalPublish ==
    /\ Running
    /\ dpc = "cleaned"
    /\ SendUpdate(TaskID, Update("completed", "Complete", 0))
    /\ dpc' = "deferred"
    /\ Fanout /\ Files /\ History /\ Reply /\ Probe

\* The deferred function of the goroutine: cancelFunc() ...
DriverCancelFunc ==
    /\ Running
    /\ dpc = "deferred"
    /\ ctxCanceled' = ctxCanceled \cup {TaskID}
    /\ dpc' = "remove"
    /\ UNCHANGED <<tasks, subscribers, chanBuf, issuedFor, closeCalls, outDir, now,
                   panics, ret, lastPub, unsubscribed, retired>>
    /\ Fanout /\ Files /\ History /\ Reply /\ Probe

\* ... and statusManager.RemoveTask(taskID).
DriverRemoveTask ==
    /\ Running
    /\ dpc = "remove"
    /\ RemoveTask(TaskID)
    /\ dpc' = "done"
    /\ Fanout /\ Files /\ History /\ Reply /\ Probe

\* handleCancelTranscode: CancelTask(taskID), any time after the job's id was
\* handed out.
CancelRequest ==
    /\ Running
    /\ dpc # "idle"
    /\ \E removed \in BOOLEAN : CancelTask(TaskID, removed)
    /\ cancelPoint' = IF cancelPoint = NoCancel /\ ~CtxDone /\ TaskID \in ctxCanceled'
                      THEN [at |-> dpc,
                            frags |-> Cardinality(Fragments),
                            open |-> Cardinality({i \in Subtasks : spc[i] \notin SubtaskDone})]
                      ELSE cancelPoint
    /\ cancelAcked' = (cancelAcked \/ (ret'.err = "" /\ ~Ended))
    /\ UNCHANGED <<dpc, sawTerminal>>
    /\ Fanout /\ Files /\ Reply /\ Probe

\* handleTranscodeStatusStream up to its loop: RegisterSubscriber, and a 404
\* when it fails.
StreamOpen ==
    /\ Running
    /\ dpc # "idle"
    /\ Cardinality({c \in Chans : issuedFor[c] # 0}) < MaxStreams
    /\ RegisterSubscriber(TaskID)
    /\ UNCHANGED <<pipeVars, sawTerminal>>

\* The handlers that are in the loop of handleTranscodeStatusStream.
Streaming(c) == issuedFor[c] # 0 /\ c \notin unsubscribed

\* The loop takes an update from the channel and writes it to the client.
StreamSend ==
    /\ Running
    /\ \E c \in Chans : Streaming(c) /\ Receive(c)
    /\ UNCHANGED pipeVars

\* The loop finds the channel closed and drained: the handler returns and its
\* deferred DeregisterSubscriber runs.
StreamClosed(c) ==
    /\ Streaming(c)
    /\ IsClosed(c)
    /\ chanBuf[c] = << >>
    /\ DeregisterSubscriber(issuedFor[c], c)
    /\ UNCHANGED <<pipeVars, sawTerminal>>

\* The client goes away (r.Context().Done(), or a failed write): the handler
\* returns and its deferred DeregisterSubscriber runs.
StreamDisconnect(c) ==
    /\ Streaming(c)
    /\ DeregisterSubscriber(issuedFor[c], c)
    /\ UNCHANGED <<pipeVars, sawTerminal>>

StreamEndClosed == Running /\ \E c \in Chans : StreamClosed(c)
StreamEndDisconnect == Running /\ \E c \in Chans : StreamDisconnect(c)

\* t.resolutions of the job the pipeline runs: subtask i transcodes Targets[i].
Targets == <<P720, 480, 360>>

\* utils.DetectPlaylistResolution once ffprobe has reported width and height:
\* an error for a zero size, otherwise a ResolutionPreset with Width and Height
\* set, whose Bitrate is left at its zero value.
DetectPlaylistResolution(width, height) ==
    IF width = 0 \/ height = 0
    THEN [res |-> [Height |-> 0, Width |-> 0, Bitrate |-> 0], err |-> "NoResolution"]
    ELSE [res |-> [Height |-> height, Width |-> width, Bitrate |-> 0], err |-> ""]

\* The types.TranscoderPlaylist subtask i returns: ffmpeg scaled the output to
\* the size of the preset, and the path from main.m3u8 starts with the tier.
TranscoderPlaylist(i) ==
    LET preset == RESOLUTIONS[Targets[i]]
    IN [Resolution |-> DetectPlaylistResolution(preset.Width, preset.Height).res,
        PlaylistPathFromMain |-> Targets[i]]

\* buildMainPlaylist: the #EXT-X-STREAM-INF line of a playlist and the path
\* under it.
StreamInf(playlist) ==
    [Bandwidth |-> playlist.Resolution.Bitrate * 1000,
     Width |-> playlist.Resolution.Width,
     Height |-> playlist.Resolution.Height,
     Path |-> playlist.PlaylistPathFromMain]

\* The variant entries of the main.m3u8 that was written.
MainPlaylist ==
    [k \in 1..Len(mainContent) |-> StreamInf(TranscoderPlaylist(mainContent[k]))]

\* One job and the cancel requests for it.
DriverNext ==
    \/ DriverBind
    \/ DriverNew
    \/ DriverNilDeref
    \/ DriverCrash
    \/ ProcStart
    \/ ProcCreateDir
    \/ TranscodeMkdir
    \/ TranscodeAnnounce
    \/ TranscodeStart
    \/ TranscodeProgress
    \/ TranscodeExit
    \/ TranscodeProbe
    \/ TranscodeSkip
    \/ PipeJoin
    \/ BuildStart
    \/ WriteManifest
    \/ ProcFail
    \/ ZipStart
    \/ Zip
    \/ FinalCleanup
    \/ FinalPublish
    \/ DriverCancelFunc
    \/ DriverRemoveTask
    \/ CancelRequest

DriverSpec == Init /\ [][DriverNext]_vars

\* One job and the status streams of its clients.
StreamNext ==
    \/ DriverBind
    \/ DriverNew
    \/ DriverNilDeref
    \/ DriverCrash
    \/ ProcStart
    \/ ProcCreateDir
    \/ TranscodeMkdir
    \/ TranscodeAnnounce
    \/ TranscodeStart
    \/ TranscodeProgress
    \/ TranscodeExit
    \/ TranscodeProbe
    \/ TranscodeSkip
    \/ PipeJoin
    \/ BuildStart
    \/ WriteManifest
    \/ ProcFail
    \/ ZipStart
    \/ Zip
    \/ FinalCleanup
    \/ FinalPublish
    \/ DriverCancelFunc
    \/ DriverRemoveTask
    \/ StreamOpen
    \/ StreamSend
    \/ StreamEndClosed
    \/ StreamEndDisconnect

StreamSpec == Init /\ [][StreamNext]_vars

\* The steps of the job's goroutines that wait for nothing but the scheduler
\* and for an external command (ffprobe, ffmpeg, zip) to return; the progress
\* lines of a running ffmpeg are not among them.
GoroutineStep ==
    \/ DriverNew
    \/ DriverNilDeref
    \/ DriverCrash
    \/ ProcStart
    \/ ProcCreateDir
    \/ TranscodeMkdir
    \/ TranscodeAnnounce
    \/ TranscodeStart
    \/ TranscodeExit
    \/ TranscodeProbe
    \/ TranscodeSkip
    \/ PipeJoin
    \/ BuildStart
    \/ WriteManifest
    \/ ProcFail
    \/ ZipStart
    \/ Zip
    \/ FinalCleanup
    \/ FinalPublish
    \/ DriverCancelFunc
    \/ DriverRemoveTask

\* StreamSpec with goroutines that are scheduled and external commands that
\* return.
TeardownSpec == Init /\ [][StreamNext]_vars /\ WF_vars(GoroutineStep)

\* ---------------------------------------------------------------- claims
\* C1 (No-block delivery): SendUpdate can always be taken, also when a
\* subscriber's channel already holds ChanCap updates; a SendUpdate for a task
\* with such a subscriber leaves every full channel's contents as they were and
\* appends the stamped update to every other subscriber channel of the task.
C1_NoBlockDelivery ==
    /\ [](\A j \in Jobs, u \in CallerUpdates : ENABLED SendUpdate(j, u))
    /\ [][\A j \in Jobs, u \in CallerUpdates :
            (/\ SendUpdate(j, u)
             /\ \E c \in SubscribersOf(j) : Len(chanBuf[c]) = ChanCap)
            => \A c \in SubscribersOf(j) :
                  chanBuf'[c] = IF Len(chanBuf[c]) = ChanCap
                                THEN chanBuf[c]
                                ELSE Append(chanBuf[c], [u EXCEPT !.Timestamp = now])]_vars

\* A SendUpdate has just skipped one full subscriber channel and delivered to
\* another subscriber of the same task.
C1_Witness ==
    /\ ret.op = "SendUpdate"
    /\ ret.skipped = 1
    /\ \E c, d \in SubscribersOf(1) :
          /\ Len(chanBuf[c]) = ChanCap
          /\ Len(chanBuf[d]) \in 1..(ChanCap - 1)
          /\ chanBuf[d][Len(chanBuf[d])] = tasks[1].LastUpdate

\* C2 (Closed-channel finality): once RemoveTask has run on a task, every
\* channel made for that task before has had close() run on it exactly once,
\* and no later step sends on it, whatever registry calls follow.
C2_ClosedChannelFinality ==
    /\ [](\A c \in retired : closeCalls[c] = 1)
    /\ [][\A c \in retired :
            \/ chanBuf'[c] = chanBuf[c]
            \/ chanBuf[c] # << >> /\ chanBuf'[c] = Tail(chanBuf[c])]_vars

\* C3 (Unsubscribe is idempotent): a DeregisterSubscriber call for a channel
\* that an earlier DeregisterSubscriber call already named changes no registry
\* state and does not run close() on the channel again.
C3_UnsubscribeIdempotent ==
    [][\A c \in unsubscribed :
          DeregisterSubscriber(issuedFor[c], c)
          => UNCHANGED <<tasks, subscribers, chanBuf, issuedFor, closeCalls, ctxCanceled>>]_vars

\* C4 (Last-status correctness): when a task has had at least one SendUpdate,
\* the channel a RegisterSubscriber call has just returned for it holds, as its
\* first update, the update the latest of these SendUpdate calls stamped.
C4_LastStatusCorrectness ==
    \A c \in Chans :
        (/\ ret.op = "RegisterSubscriber"
         /\ ret.ch = c
         /\ lastPub[issuedFor[c]] # ZeroUpdate)
        => /\ chanBuf[c] # << >>
           /\ Head(chanBuf[c]) = lastPub[issuedFor[c]]

\* C5 (Subscribe-miss): RegisterSubscriber for a task id without a tasks entry
\* returns the NotFound error and no channel and leaves both maps, and every
\* channel, as they were.
C5_SubscribeMiss ==
    [][\A j \in Jobs :
          (RegisterSubscriber(j) /\ j \notin DOMAIN tasks)
          => /\ ret'.err = "NotFound"
             /\ ret'.ch = 0
             /\ UNCHANGED <<tasks, subscribers, chanBuf, issuedFor, closeCalls>>]_vars

\* A RegisterSubscriber call has just failed for a task that was published to
\* and then removed.
C5_Witness ==
    /\ ret = Returned("RegisterSubscriber", 0, "NotFound", 0)
    /\ 1 \notin DOMAIN tasks
    /\ lastPub[1] # ZeroUpdate

\* C6 (Per-subscriber ordering): the buffer of a channel only ever changes by
\* its reader taking the oldest update, by RegisterSubscriber putting the last
\* status into the new channel, or by a SendUpdate for the channel's task
\* appending the one update it stamped; so what a subscriber receives is the
\* snapshot followed by a subsequence of the later publishes for its task, in
\* publish order (timestamps never decrease along a buffer).
C6_PerSubscriberOrdering ==
    /\ [](\A c \in Chans : \A i, k \in 1..Len(chanBuf[c]) :
            i < k => chanBuf[c][i].Timestamp <= chanBuf[c][k].Timestamp)
    /\ [][\A c \in Chans :
            \/ chanBuf'[c] = chanBuf[c]
            \/ chanBuf[c] # << >> /\ chanBuf'[c] = Tail(chanBuf[c])
            \/ /\ issuedFor[c] = 0
               /\ issuedFor'[c] # 0
               /\ chanBuf'[c] = <<tasks[issuedFor'[c]].LastUpdate>>
            \/ /\ issuedFor[c] # 0
               /\ \E u \in CallerUpdates : SendUpdate(issuedFor[c], u)
               /\ chanBuf'[c] = Append(chanBuf[c], lastPub'[issuedFor[c]])]_vars

\* A subscriber's buffer holds the snapshot and later publishes, stamped at
\* different times, after its reader has taken some.
C6_Witness ==
    \E c \in Chans :
        /\ Len(chanBuf[c]) >= 3
        /\ chanBuf[c][1].Type # ""
        /\ chanBuf[c][1].Timestamp < chanBuf[c][Len(chanBuf[c])].Timestamp
        /\ ret.op = "SendUpdate"

\* C7 (Terminal signal): a status stream whose handler stays in its loop until
\* it finds the channel closed by the registry has, by then, taken from the
\* channel an update of a terminal kind ("completed", "failed", "cancelled").
C7_TerminalSignal ==
    [][\A c \in Chans : StreamClosed(c) => sawTerminal[c]]_vars

\* C8 (Cancellation precedence): when the first CancelTask call that triggers
\* the token comes while the subtasks run, with some of them still unfinished
\* (so fewer than all have returned a Fragment), no manifest is ever assembled
\* and the terminal status of the job, once published, is "cancelled".
C8_CancellationPrecedence ==
    (/\ cancelPoint # NoCancel
     /\ cancelPoint.at = "fanout"
     /\ cancelPoint.open > 0)
    => /\ ~manifest
       /\ dpc \notin {"build", "write", "archiving", "zip", "zipped", "cleaned"}
       /\ Terminal \in {"", "cancelled"}

\* The token was triggered after one subtask had returned its Fragment and
\* before the last one finished; every subtask went on to return a Fragment,
\* and the job ended "cancelled".
C8_Witness ==
    /\ cancelPoint # NoCancel
    /\ cancelPoint.at = "fanout"
    /\ cancelPoint.frags >= 1
    /\ cancelPoint.open >= 1
    /\ Fragments = Subtasks
    /\ Terminal = "cancelled"

\* C9 (Success never wins over cancellation): when a CancelTask call returned
\* nil before Process published the job's terminal status, that status is
\* not "completed".
C9_SuccessNeverWins ==
    cancelAcked => Terminal # "completed"

\* C10 (All-or-nothing success): when every subtask has returned, at least one
\* with an error and all the others with a Fragment, and no CancelTask call
\* has triggered the token, no manifest is written, no archive produced, and
\* the terminal status of the job, once published, is "failed".
C10_AllOrNothing ==
    (/\ \A i \in Subtasks : spc[i] \in {"fragment", "error"}
     /\ \E i \in Subtasks : spc[i] = "error"
     /\ cancelPoint = NoCancel)
    => /\ ~manifest
       /\ ~archive
       /\ Terminal \in {"", "failed"}

\* One subtask returned an error, another its Fragment, nobody cancelled, and
\* the job ended "failed".
C10_Witness ==
    /\ \E i, k \in Subtasks : spc[i] = "error" /\ spc[k] = "fragment"
    /\ \A i \in Subtasks : spc[i] \in {"fragment", "error"}
    /\ cancelPoint = NoCancel
    /\ Terminal = "failed"
    /\ lastPub[TaskID].Msg = "TranscodingFailed"

\* C11 (Manifest ordering): a written master manifest lists the variants of
\* the subtasks in dispatch order (subtask 1, subtask 2, ...), in whatever
\* order the subtasks completed.
C11_ManifestOrdering ==
    manifest => mainContent = [i \in 1..MaxSubtasks |-> i]

\* C12 (Cancel outcome taxonomy): CancelTask returns NotFound exactly when the
\* task has no entry, NotCancellable exactly when its entry has no cancel
\* function, and otherwise invokes the function and returns nil.
C12_CancelTaxonomy ==
    [][\A j \in Jobs, removed \in BOOLEAN :
          CancelTask(j, removed)
          => /\ ret'.err = IF j \notin DOMAIN tasks THEN "NotFound"
                           ELSE IF tasks[j].Cancel = 0 THEN "NotCancellable"
                           ELSE ""
             /\ (j \in DOMAIN tasks /\ tasks[j].Cancel # 0)
                => tasks[j].Cancel \in ctxCanceled']_vars

\* C13 (Cancel is a pure signal): a CancelTask call, whatever it returns,
\* leaves the task's entry with its last status and cancel function, the
\* subscriber sets and every channel as they were.
C13_CancelPureSignal ==
    [][\A j \in Jobs, removed \in BOOLEAN :
          CancelTask(j, removed)
          => UNCHANGED <<tasks, subscribers, chanBuf, issuedFor, closeCalls, lastPub>>]_vars

\* A CancelTask call has just triggered the token of a task that has a last
\* status and a subscriber with updates pending.
C13_Witness ==
    /\ ret = Returned("CancelTask", 0, "", 0)
    /\ 1 \in ctxCanceled
    /\ 1 \in DOMAIN tasks
    /\ tasks[1].LastUpdate.Type = "progress"
    /\ tasks[1].Cancel = 1
    /\ \E c \in SubscribersOf(1) : Len(chanBuf[c]) >= 2

\* C14 (Idempotent cancel): a CancelTask call that directly follows another
\* one, for a task that has an entry with a cancel function, returns what the
\* first returned, raises no panic and leaves the token as it was.
C14_IdempotentCancel ==
    [][\A j \in Jobs, removed \in BOOLEAN :
          (/\ ret.op = "CancelTask"
           /\ j \in DOMAIN tasks
           /\ tasks[j].Cancel # 0
           /\ CancelTask(j, removed))
          => /\ ret'.err = ret.err
             /\ panics' = panics
             /\ ctxCanceled' = ctxCanceled]_vars

\* C15 (Remove postcondition): RemoveTask can be called in every state; it
\* raises no panic, invokes the bound cancel function, closes every registered
\* channel of the task and leaves the task without entry and without
\* subscriber set, and the entry, subscriber set and channels of every other
\* task as they were; RegisterSubscriber and CancelTask on a task without
\* entry return NotFound.
C15_RemovePostcondition ==
    /\ [](\A j \in PairJobs : ENABLED RemoveTask(j))
    /\ [][\A j \in PairJobs :
            RemoveTask(j)
            => /\ panics' = panics
               /\ j \notin DOMAIN tasks'
               /\ j \notin DOMAIN subscribers'
               /\ (j \in DOMAIN tasks /\ tasks[j].Cancel # 0)
                  => tasks[j].Cancel \in ctxCanceled'
               /\ \A c \in SubscribersOf(j) : closeCalls'[c] = 1
               /\ \A k \in PairJobs \ {j} :
                     /\ (k \in DOMAIN tasks') = (k \in DOMAIN tasks)
                     /\ k \in DOMAIN tasks => tasks'[k] = tasks[k]
                     /\ (k \in DOMAIN subscribers') = (k \in DOMAIN subscribers)
                     /\ k \in DOMAIN subscribers => subscribers'[k] = subscribers[k]
                     /\ \A c \in Chans :
                           issuedFor[c] = k => /\ chanBuf'[c] = chanBuf[c]
                                               /\ closeCalls'[c] = closeCalls[c]]_vars
    /\ [][\A j \in PairJobs :
            (j \notin DOMAIN tasks /\ RegisterSubscriber(j))
            => ret'.err = "NotFound"]_vars
    /\ [][\A j \in PairJobs, removed \in BOOLEAN :
            (j \notin DOMAIN tasks /\ CancelTask(j, removed))
            => ret'.err = "NotFound"]_vars

\* RemoveTask has just run on task 1, which had an entry, a cancel function
\* and a subscriber, while task 2 keeps its entry and an open subscriber.
C15_Witness ==
    /\ ret.op = "RemoveTask"
    /\ 1 \notin DOMAIN tasks
    /\ 1 \notin DOMAIN subscribers
    /\ 1 \in ctxCanceled
    /\ \E c \in Chans : issuedFor[c] = 1 /\ closeCalls[c] = 1 /\ c \notin unsubscribed
    /\ 2 \in DOMAIN tasks
    /\ \E d \in SubscribersOf(2) : ~IsClosed(d)

\* The goroutine of handleTranscode after NewTranscoder returned nil.
NilPath == {"nilProcess", "crashing", "crashed"}

\* C16 (StartJob on an unsupported source): handleTranscode hands a task id to
\* its client only for a task whose NewTranscoder call returned a transcoder;
\* no response carries the id of a task whose NewTranscoder returned nil.
C16_NoIdForUnsupportedSource == dpc \in NilPath => response.taskId = 0

\* C17 (construction failure ends normally): after NewTranscoder returned nil
\* the goroutine publishes "failed", removes the task and ends without calling
\* Process, so no panic is ever raised on that path.
C17_NilTranscoderEndsNormally == dpc \in NilPath => panics = {}

\* C18 (target-resolution selection): the targets of a transcoder are exactly
\* the preset tiers that have a size and whose height is at most the height
\* probed for the source.
C18_TargetSelection ==
    tpc = "built"
    => {resolutions[i] : i \in 1..Len(resolutions)}
       = {r \in DOMAIN RESOLUTIONS : /\ RESOLUTIONS[r].Height <= source.Height
                                     /\ RESOLUTIONS[r].Width > 0
                                     /\ RESOLUTIONS[r].Height > 0}

\* C19 (status-kind validity): every update sent on a subscriber channel, the
\* last-status snapshot of RegisterSubscriber included, has one of the five
\* kinds started, progress, completed, failed, cancelled.
C19_StatusKindValidity ==
    \A c \in Chans : \A i \in 1..Len(chanBuf[c]) : chanBuf[c][i].Type \in Kinds

C21_JoinBarrier ==
    [][/\ (dpc = "fanout" /\ dpc' # "fanout")
          => \A i \in Subtasks : spc[i] \in SubtaskDone
       /\ dpc # "fanout" => spc' = spc]_vars

\* The wait is over although one subtask returned an error while another
\* went on to its Fragment.
C21_Witness ==
    /\ dpc = "procfail"
    /\ \E i, k \in Subtasks : spc[i] = "error" /\ spc[k] = "fragment"

\* C22 (no sibling abort): a step in which a subtask fails or reports its
\* error triggers no token and moves no other subtask; while nobody cancels,
\* no subtask returns cancelled, and once a subtask has returned an error
\* every subtask returns and Process publishes the job's terminal status.
C22_NoSiblingAbort ==
    /\ [][\A i \in Subtasks :
            (spc'[i] # spc[i] /\ spc'[i] \in {"err", "error"})
            => /\ ctxCanceled' = ctxCanceled
               /\ \A k \in Subtasks \ {i} : spc'[k] = spc[k]]_vars
    /\ [](\A i \in Subtasks : spc[i] # "cancelled")
    /\ (\E i \in Subtasks : spc[i] = "error") ~> (WaitGroupDone /\ Ended)

\* One subtask returned an error, its sibling returned its Fragment, nobody
\* triggered the token, and the job ended "failed".
C22_Witness ==
    /\ \E i, k \in Subtasks : spc[i] = "error" /\ spc[k] = "fragment"
    /\ TaskID \notin ctxCanceled
    /\ playlistChan # << >>
    /\ errorOccurred
    /\ dpc = "deferred"
    /\ Terminal = "failed"

\* C23 (cancelled, never error): once the token is triggered, a subtask that
\* is about to start ffmpeg, is running it, or is about to probe the playlist
\* it encoded does not go on to an error: it returns cancelled or its
\* Fragment.
C23_CancelledNotError ==
    [][\A i \in Subtasks :
         (CtxDone /\ spc[i] \in {"piped", "running", "probe"})
         => spc'[i] \notin {"err", "error"}]_vars

\* C24 (cancellation is no failure): the flag errorOccurred is set exactly
\* when some subtask goroutine has returned on an error that is not the
\* cancellation, and the step in which a subtask returns cancelled leaves the
\* flag as it was.
C24_CancelledKeepsFlag ==
    /\ [](errorOccurred <=> \E i \in Subtasks : spc[i] = "error")
    /\ [][\A i \in Subtasks :
            (spc[i] # "cancelled" /\ spc'[i] = "cancelled")
            => errorOccurred' = errorOccurred]_vars

\* Every subtask has returned, one of them cancelled, the flag is not set and
\* the job ended "cancelled".
C24_Witness ==
    /\ WaitGroupDone
    /\ \E i \in Subtasks : spc[i] = "cancelled"
    /\ ~errorOccurred
    /\ Terminal = "cancelled"

\* C25 (output-directory ownership): a CancelTask call that comes before
\* Process has published the job's terminal status leaves the job's output
\* directory as it is.
C25_DirectoryOwnership ==
    [][\A removed \in BOOLEAN :
         (~Ended /\ dpc' = dpc /\ CancelTask(TaskID, removed))
         => outDir'[TaskID] = outDir[TaskID]]_vars

\* C26 (Publish and BindCancellation commute): SendUpdate creates the entry
\* when absent and replaces only its last status, keeping the bound cancel
\* function; StoreCancelFunc creates the entry when absent and sets only the
\* cancel function, keeping the last status; an entry's last status is the
\* latest update published unless nothing was published since the entry was
\* created; and CancelTask on an entry with a bound function does not return
\* the no-cancel-function error.
C26_PublishBindCommute ==
    /\ [][\A j \in Jobs, u \in CallerUpdates :
            SendUpdate(j, u)
            => /\ j \in DOMAIN tasks'
               /\ tasks'[j].LastUpdate = [u EXCEPT !.Timestamp = now]
               /\ tasks'[j].Cancel = IF j \in DOMAIN tasks THEN tasks[j].Cancel ELSE 0]_vars
    /\ [][\A j \in Jobs, h \in Handles :
            StoreCancelFunc(j, h)
            => /\ j \in DOMAIN tasks'
               /\ tasks'[j].Cancel = h
               /\ tasks'[j].LastUpdate = IF j \in DOMAIN tasks THEN tasks[j].LastUpdate
                                                               ELSE ZeroUpdate]_vars
    /\ [](\A j \in DOMAIN tasks : tasks[j].LastUpdate \in {ZeroUpdate, lastPub[j]})
    /\ [][\A j \in Jobs, removed \in BOOLEAN :
            (j \in DOMAIN tasks /\ tasks[j].Cancel # 0 /\ CancelTask(j, removed))
            => ret'.err # "NotCancellable"]_vars

\* A task was bound to the first function, cancelled, published at the latest
\* clock value and bound to the second function, which a CancelTask call has
\* just invoked.
C26_Witness ==
    /\ ret.op = "CancelTask"
    /\ ret.err = ""
    /\ ctxCanceled = Handles
    /\ 1 \in DOMAIN tasks
    /\ tasks[1].Cancel = 2
    /\ tasks[1].LastUpdate = lastPub[1]
    /\ tasks[1].LastUpdate.Timestamp = MaxClock

\* C27 (manifest content): a written master manifest has one variant entry for
\* each subtask that returned a Fragment and no other, and every entry carries
\* the bitrate of its tier's preset (not zero), the width and height detected
\* for the fragment and the fragment's path.
C27_ManifestContent ==
    manifest
    => /\ Len(MainPlaylist) = Cardinality(Fragments)
       /\ \A i \in Fragments : \E k \in 1..Len(MainPlaylist) :
             MainPlaylist[k].Path = Targets[i]
       /\ \A k \in 1..Len(MainPlaylist) :
             LET entry == MainPlaylist[k]
                 preset == RESOLUTIONS[entry.Path]
             IN /\ entry.Bandwidth = preset.Bitrate * 1000
                /\ entry.Bandwidth # 0
                /\ entry.Width = preset.Width
                /\ entry.Height = preset.Height

\* C28 (broadcast timestamps): SendUpdate stores and sends its update with the
\* clock value of the call in place of the caller's timestamp; the clock and
\* the timestamp of the latest publish of a task never go back; every update
\* waiting in a channel was stamped no later than the present clock value and
\* no earlier than the updates ahead of it, so a reader receives
\* non-decreasing timestamps; and a stored last status that was published
\* carries the timestamp of the latest publish.
C28_BroadcastTimestamps ==
    /\ [][\A j \in Jobs, u \in CallerUpdates :
            SendUpdate(j, u)
            => /\ tasks'[j].LastUpdate.Timestamp = now
               /\ lastPub'[j].Timestamp = now
               /\ lastPub'[j].Timestamp >= lastPub[j].Timestamp
               /\ \A c \in Chans :
                     chanBuf'[c] # chanBuf[c]
                     => chanBuf'[c][Len(chanBuf'[c])].Timestamp = now]_vars
    /\ [][now' >= now]_vars
    /\ [](\A c \in Chans : \A k \in 1..Len(chanBuf[c]) :
            /\ chanBuf[c][k].Timestamp <= now
            /\ k > 1 => chanBuf[c][k - 1].Timestamp <= chanBuf[c][k].Timestamp)
    /\ [](\A j \in DOMAIN tasks :
            tasks[j].LastUpdate # ZeroUpdate
            => tasks[j].LastUpdate.Timestamp = lastPub[j].Timestamp)

\* A subscriber's buffer holds updates stamped at the first and at the latest
\* clock value, none with the callers' timestamp, and the stored last status is
\* the one stamped latest.
C28_Witness ==
    /\ now = MaxClock
    /\ 1 \in DOMAIN tasks
    /\ tasks[1].LastUpdate.Timestamp = MaxClock
    /\ \E c \in SubscribersOf(1) :
          /\ Len(chanBuf[c]) >= 2
          /\ chanBuf[c][1].Timestamp = 1
          /\ chanBuf[c][Len(chanBuf[c])].Timestamp = MaxClock

\* C29 (subscriber-set pruning): DeregisterSubscriber of the only channel in a
\* task's subscriber set deletes the set and leaves the status entries as
\* they are; and in every state every subscriber set is non-empty and belongs
\* to a task that has a status entry.
C29_SubscriberSetPruning ==
    /\ [][\A c \in Chans :
            (/\ issuedFor[c] # 0
             /\ SubscribersOf(issuedFor[c]) = {c}
             /\ DeregisterSubscriber(issuedFor[c], c))
            => /\ issuedFor[c] \notin DOMAIN subscribers'
               /\ tasks' = tasks]_vars
    /\ [](\A j \in DOMAIN subscribers : subscribers[j] # {} /\ j \in DOMAIN tasks)

\* The only subscriber of task 1 has just been deregistered: the task keeps
\* its status entry and has no subscriber set, while task 2 has one.
C29_Witness ==
    /\ ret.op = "DeregisterSubscriber"
    /\ panics = {}
    /\ 1 \in DOMAIN tasks
    /\ 1 \notin DOMAIN subscribers
    /\ issuedFor[ret.ch] = 1
    /\ closeCalls[ret.ch] = 1
    /\ 2 \in DOMAIN subscribers

\* C30 (completed means Fragment): a subtask that has published the
\* "completed" update of its resolution goes on to return its Fragment: it
\* publishes no "failed" update and returns no error.
C30_CompletedMeansFragment ==
    [][\A i \in Subtasks :
         spc[i] = "probe"
         => /\ spc'[i] \in {"probe", "fragment"}
            /\ spc'[i] # spc[i] => lastPub'[TaskID].Type # "failed"]_vars

\* C31 (dispatch order): the targets a transcoder is constructed with, which
\* transcodeResolutions launches in slice order, are strictly descending.
C31_DispatchOrder ==
    tpc = "built"
    => \A i, k \in 1..Len(resolutions) : i < k => resolutions[i] > resolutions[k]

\* C32 (terminal update is last): when Process has returned, the latest update
\* published for the job is of kind completed, failed or cancelled ("failed"
\* when NewTranscoder returned nil); nothing is published for the job from
\* then on, and the entry RemoveTask deleted is not created again.
C32_TerminalUpdateLast ==
    /\ [](Ended => lastPub[TaskID].Type \in TerminalKinds)
    /\ [](dpc \in NilPath => lastPub[TaskID].Type = "failed")
    /\ [][(Ended \/ dpc \in NilPath) => lastPub' = lastPub]_vars
    /\ [](dpc \in {"done", "crashing", "crashed"} => TaskID \notin DOMAIN tasks)

\* The job has been removed after a failure of the packaging: the manifest was
\* written, no archive exists, and the last update published is "failed".
C32_Witness ==
    /\ dpc = "done"
    /\ TaskID \notin DOMAIN tasks
    /\ manifest
    /\ ~archive
    /\ lastPub[TaskID].Type = "failed"
    /\ lastPub[TaskID].Msg = "ArchiveFailed"

\* C33 (no send on a closed channel): in every state every channel in a
\* subscriber set is open and buffers at most ChanCap updates, so a closed
\* channel is in no set, and no SendUpdate or RegisterSubscriber call raises
\* the send-on-closed-channel panic.
C33_SubscribedChannelsOpen ==
    /\ [](\A j \in DOMAIN subscribers : \A c \in subscribers[j] :
            ~IsClosed(c) /\ Len(chanBuf[c]) <= ChanCap)
    /\ []("send on closed channel" \notin panics)

\* A SendUpdate has just skipped a subscribed channel whose buffer is full,
\* while another channel of the task has been closed and is in no set.
C33_Witness ==
    /\ ret.op = "SendUpdate"
    /\ ret.skipped >= 1
    /\ \E c \in SubscribersOf(1) : Len(chanBuf[c]) = ChanCap
    /\ \E d \in Chans : IsClosed(d) /\ d \notin SubscribersOf(1)

\* C34 (each channel closed once): with stream handlers that deregister once
\* when they return and a goroutine that removes the job once, close() runs at
\* most once on every channel and never panics; the channel of a handler that
\* has returned, and every channel made once the job is removed, has been
\* closed exactly once.
C34_ClosedExactlyOnce ==
    /\ [](\A c \in Chans : closeCalls[c] <= 1)
    /\ []("close of closed channel" \notin panics)
    /\ [](\A c \in unsubscribed : closeCalls[c] = 1)
    /\ [](dpc \in {"done", "crashing", "crashed"}
          => \A c \in Chans : issuedFor[c] # 0 => closeCalls[c] = 1)

\* The goroutine removed the job while a handler was streaming; the handler
\* then found its channel closed and deregistered it.
C34_Witness ==
    /\ dpc = "done"
    /\ ret.op = "DeregisterSubscriber"
    /\ ret.ch \in retired
    /\ ret.ch \in unsubscribed
    /\ closeCalls[ret.ch] = 1
    /\ panics = {}

\* C35 (a handed-out job is cancellable): while the entry of a job whose id
\* handleTranscode has handed out exists, it holds the cancel function; a
\* CancelTask call for the job never returns the no-cancel-function error, it
\* finds the entry until the goroutine has removed the job, and it returns
\* not-found afterwards.
C35_HandedOutJobCancellable ==
    /\ []((response.taskId = TaskID /\ TaskID \in DOMAIN tasks)
          => tasks[TaskID].Cancel = TaskID)
    /\ [][\A removed \in BOOLEAN :
            (response.taskId = TaskID /\ dpc' = dpc /\ CancelTask(TaskID, removed))
            => /\ ret'.err # "NotCancellable"
               /\ (ret'.err = "NotFound") <=> (dpc \in {"done", "crashing"})]_vars

\* A CancelTask call returned nil while the job ran, and one made after the
\* goroutine removed the job has just returned not-found.
C35_Witness ==
    /\ dpc = "done"
    /\ cancelAcked
    /\ lastPub[TaskID].Type = "cancelled"
    /\ ret = Returned("CancelTask", 0, "NotFound", 0)

\* C36 (the join cannot deadlock): playlistChan never holds more playlists
\* than its capacity and none of a subtask twice; a subtask about to send its
\* playlist finds a free slot; and once the subtasks are launched, Process
\* goes on to publish the job's terminal status.
C36_JoinCannotDeadlock ==
    /\ [](Len(playlistChan) <= PlaylistCap)
    /\ [](\A i \in Subtasks :
            Cardinality({k \in 1..Len(playlistChan) : playlistChan[k] = i}) <= 1)
    /\ [](\A i \in Subtasks : spc[i] = "probe" => Len(playlistChan) < PlaylistCap)
    /\ (dpc = "fanout") ~> Ended

\* Every subtask has sent its playlist, playlistChan was full at the join, and
\* Process published "completed".
C36_Witness ==
    /\ Len(playlistChan) = PlaylistCap
    /\ Fragments = Subtasks
    /\ Ended
    /\ lastPub[TaskID].Msg = "Complete"

C38_CancelledPublishesNoFailed ==
    [][\A i \in Subtasks :
         (spc[i] # "cancelled" /\ spc'[i] = "cancelled")
         => ~(lastPub'[TaskID] # lastPub[TaskID] /\ lastPub'[TaskID].Type = "failed")]_vars

\* C39 (final completed): when Process has returned, its last update is of
\* kind completed, failed or cancelled, and it is the final "completed" only
\* if every subtask returned a Fragment, main.m3u8 was written with one entry
\* for each of them, the archive was produced, and no CancelTask call had
\* triggered the token by the time transcodeResolutions checked it.
C39_FinalCompleted ==
    Ended
    => /\ lastPub[TaskID].Type \in TerminalKinds
       /\ lastPub[TaskID].Type = "completed"
          => /\ lastPub[TaskID].Msg = "Complete"
             /\ Fragments = Subtasks
             /\ manifest
             /\ Len(mainContent) = Cardinality(Subtasks)
             /\ archive
             /\ cancelPoint.at \notin {"spawned", "process", "mkdir", "fanout"}

\* The job has been removed after its final "completed": every subtask
\* returned a Fragment, manifest and archive exist, nobody cancelled.
C39_Witness ==
    /\ dpc = "done"
    /\ lastPub[TaskID].Msg = "Complete"
    /\ Fragments = Subtasks
    /\ manifest
    /\ archive
    /\ cancelPoint = NoCancel

====
